---- MODULE Spec2Model ----
(***************************************************************************)
(* Model of the vote handler of app/routes/compare.server.ts: the `action` *)
(* route (validation, dual rate limiting, Elo update, transactional write) *)
(* and cleanupRateLimit.                                                   *)
(*                                                                         *)
(* Ratings are JavaScript floats in the source.  Here a rating is an       *)
(* integer number of thousandths of an Elo point, and Math.pow(10, x/400)  *)
(* is computed from a 16-entry table per decade with linear interpolation. *)
(*                                                                         *)
(* A request runs to completion between two awaits (Node's event loop), so *)
(* each action below is one await-free stretch of `action`:                *)
(*   Submit     lines 106-113  formData, Number(), validation              *)
(*   RateLimit  lines 116-169  session, cleanup, both limiters, both pushes*)
(*   ReadWinner / ReadLoser  lines 173-182  the two findUnique queries     *)
(*   NotFound   lines 184-186 and 213-216                                  *)
(*   Commit     lines 188-212  Elo computation and $transaction            *)
(*   TxFail     lines 197-206 and 213-216  $transaction rejects            *)
(*                                                                         *)
(* The comparison request `loader` (lines 5-56) is modelled the same way:  *)
(* the count, the draw of the two offsets, each turn of the redraw loop,   *)
(* each of the two findFirst queries and the return are one action each.   *)
(* The two vote forms of the page come from app/routes/compare.tsx.        *)
(* The asset loader of app/routes/external-images.$.tsx has no await: it   *)
(* is one action.  The leaderboard loader of app/routes/home.tsx is one    *)
(* action per query and one for the return.                                *)
(***************************************************************************)
EXTENDS Integers, Sequences, FiniteSets, TLC

VARIABLES
    clock,                \* Date.now(), in ms
    elo,                  \* the image table: id -> elo
    rateLimitMap,         \* clientIP -> [requests, lastCleanup]
    sessionRateLimitMap,  \* sessionId -> [requests, lastCleanup]
    pc,                   \* per request slot: where the handler is
    req,                  \* per request slot: the submitted form and headers
    winner,               \* per request slot: result of findUnique(winnerId)
    loser,                \* per request slot: result of findUnique(loserId)
    result,               \* per request slot: what the handler returned or threw
    logged,               \* per request slot: the error given to console.error
    admittedIP,           \* history: clientIP -> timestamps of admitted requests
    admittedSession,      \* history: sessionId -> timestamps of admitted requests
    nreq,                 \* history: number of requests submitted
    nbursts,              \* history: number of bursts of requests
    nticks,               \* history: number of clock advances
    nfresh,               \* number of session ids drawn from crypto.randomUUID()
    lpc,                  \* comparison request: where the loader is
    totalImages,          \* comparison request: result of db.image.count()
    random,               \* comparison request: last value of Math.random()
    randomOffset1,        \* comparison request: the first offset
    randomOffset2,        \* comparison request: the second offset
    imageA,               \* comparison request: result of findFirst(skip: randomOffset1)
    imageB,               \* comparison request: result of findFirst(skip: randomOffset2)
    lresult,              \* comparison request: what the loader returned or threw
    nextId,               \* the next value of the id sequence of the image table
    changed,              \* history: the table gained or lost a row since the count
    nloads,               \* history: number of comparison requests
    nadmin,               \* history: number of rows inserted or deleted
    fs,                   \* the file system: regular files and symbolic links
    asset,                \* asset request: the filename asked for and the response
    nassets,              \* history: number of asset requests
    home,                 \* leaderboard request: where the loader is and what it read
    nhome                 \* history: number of leaderboard requests

\* the state of the comparison request and of the table's administration
\* the state of the asset requests and of the leaderboard requests
pageVars == <<fs, asset, nassets, home, nhome>>

loaderVars == <<lpc, totalImages, random, randomOffset1, randomOffset2, imageA,
                imageB, lresult, nextId, changed, nloads, nadmin, pageVars>>

vars == <<clock, elo, rateLimitMap, sessionRateLimitMap, pc, req, winner, loser,
          result, logged, admittedIP, admittedSession, nreq, nbursts, nticks,
          nfresh, loaderVars>>

-----------------------------------------------------------------------------
(* Bounds of the model *)

MaxVotes == 2        \* requests submitted in a behaviour of Spec
MaxSingles == 2      \* requests submitted one by one in a behaviour of SpecRL
MaxSame == 2         \* requests submitted in a behaviour of SpecSame
MaxBursts == 2       \* bursts of requests in a behaviour of SpecRL
MaxTicks == 2        \* clock advances in a behaviour

Slots == {1, 2}                 \* requests in flight at once
ItemIds == {1, 2}               \* ids of the rows of the image table
ClientIPs == {"ip1", "ip2"}
CookieSessions == {"s1", "s2"}  \* session ids carried by a request's cookie
NoCookie == "none"              \* a request without a session cookie
FreshIds == <<"u1">>            \* values crypto.randomUUID() returns, in order
AllSessions == CookieSessions \cup {FreshIds[i] : i \in 1..Len(FreshIds)}

-----------------------------------------------------------------------------
(* Program constants *)

windowMs == 60 * 1000
maxRequestsPerIP == 30
maxRequestsPerSession == 20
cleanupInterval == 5 * 60 * 1000
K == 32

\* thousandths of a rating point per rating point
PerPoint == 10 * 10 * 10
DefaultElo == 1200 * PerPoint

-----------------------------------------------------------------------------
(* Number(formData.get(...)) *)

\* The form values a request may carry.
RawIds == {"1", "2", "9", "abc", "1.5"}

\* A JavaScript number: NaN, or a value in tenths.
Number(raw) ==
    CASE raw = "1"   -> [nan |-> FALSE, tenths |-> 10]
      [] raw = "2"   -> [nan |-> FALSE, tenths |-> 20]
      [] raw = "3"   -> [nan |-> FALSE, tenths |-> 30]
      [] raw = "9"   -> [nan |-> FALSE, tenths |-> 90]
      [] raw = "1.5" -> [nan |-> FALSE, tenths |-> 15]
      [] OTHER       -> [nan |-> TRUE, tenths |-> 0]

isNaN(n) == n.nan

\* winnerId === loserId : NaN is equal to nothing
StrictEq(a, b) == ~a.nan /\ ~b.nan /\ a.tenths = b.tenths

winnerId(p) == Number(req[p].rawWinner)
loserId(p) == Number(req[p].rawLoser)

\* line 111
InvalidIds(w, l) == isNaN(w) \/ isNaN(l) \/ StrictEq(w, l)

IsInteger(n) == ~n.nan /\ n.tenths % 10 = 0
IntOf(n) == n.tenths \div 10

-----------------------------------------------------------------------------
(* Elo calculator, lines 188-194 *)

Pow10Table ==
    <<1000, 1155, 1334, 1540, 1778, 2054, 2371, 2738, 3162,
      3652, 4217, 4870, 5623, 6494, 7499, 8660, 10000>>

TableStep == (400 * PerPoint) \div 16

\* 10^(r/400) * 1000 for 0 <= r < 400 points
Pow10Frac(r) ==
    LET k == r \div TableStep
        lo == Pow10Table[k + 1]
        hi == Pow10Table[k + 2]
    IN  lo + ((hi - lo) * (r - k * TableStep)) \div TableStep

RECURSIVE TenTo(_)
TenTo(n) == IF n = 0 THEN 1 ELSE 10 * TenTo(n - 1)

\* Math.pow(10, x / 400) * 1000, x in thousandths of a point.  Beyond four
\* decades either way the value is held at the four-decade one.
Pow10(x) ==
    LET q0 == x \div (400 * PerPoint)
        q == IF q0 > 4 THEN 4 ELSE IF q0 < -4 THEN -4 ELSE q0
        f == Pow10Frac(x % (400 * PerPoint))
    IN  IF q >= 0 THEN f * TenTo(q) ELSE f \div TenTo(-q)

\* an expected score of the winner that ignores the ratings: it is sure to win
expectedWinnerSure(winnerElo, loserElo) == 1000

\* in thousandths
expectedWinner(winnerElo, loserElo) ==
    (1000 * 1000) \div (1000 + Pow10(loserElo - winnerElo))

\* the loser expected to score what the winner is expected to score
expectedLoserAsWinner(winnerElo, loserElo) == expectedWinner(winnerElo, loserElo)

expectedLoser(winnerElo, loserElo) == 1000 - expectedWinner(winnerElo, loserElo)

Max(a, b) == IF a >= b THEN a ELSE b

\* the winner gaining twice K times what it was not expected to score
newWinnerEloDoubleK(winnerElo, loserElo) ==
    Max(0, winnerElo + 2 * K * (1000 - expectedWinner(winnerElo, loserElo)))

newWinnerElo(winnerElo, loserElo) ==
    Max(0, winnerElo + K * (1000 - expectedWinner(winnerElo, loserElo)))

\* the loser's rating without the clamp at 0
newLoserEloUnclamped(winnerElo, loserElo) ==
    loserElo + K * (0 - expectedLoser(winnerElo, loserElo))

newLoserElo(winnerElo, loserElo) ==
    Max(0, loserElo + K * (0 - expectedLoser(winnerElo, loserElo)))

-----------------------------------------------------------------------------
(* Rate limiter, lines 71-103 and 130-169 *)

\* requests.filter(time => now - time < windowMs)
Recent(requests, now) == SelectSeq(requests, LAMBDA time : now - time < windowMs)

NewBucket(now) == [requests |-> <<>>, lastCleanup |-> now]

\* if (!map.has(key)) map.set(key, { requests: [], lastCleanup: now })
Ensure(map, key, now) ==
    IF key \in DOMAIN map THEN map ELSE (key :> NewBucket(now)) @@ map

\* the push made on the filtered copy, which is never stored back
PushNotStored(map, key, now) == map

\* recent.push(now); data.requests = recent
Push(map, key, now) ==
    [map EXCEPT ![key].requests = Append(Recent(map[key].requests, now), now)]

\* a cleanup that filters the buckets that are due and deletes none
CleanupMapKeepEmpty(map, now) ==
    LET due(k) == now - map[k].lastCleanup > cleanupInterval
        kept(k) == SelectSeq(map[k].requests, LAMBDA time : now - time < 60 * 1000)
    IN  [k \in DOMAIN map |->
            IF due(k) THEN [requests |-> kept(k), lastCleanup |-> now] ELSE map[k]]

\* one loop of cleanupRateLimit over one of the two maps
CleanupMap(map, now) ==
    LET due(k) == now - map[k].lastCleanup > cleanupInterval
        kept(k) == SelectSeq(map[k].requests, LAMBDA time : now - time < 60 * 1000)
        left == {k \in DOMAIN map : ~due(k) \/ Len(kept(k)) # 0}
    IN  [k \in left |->
            IF due(k) THEN [requests |-> kept(k), lastCleanup |-> now] ELSE map[k]]

-----------------------------------------------------------------------------
(* The state after the module is loaded and the table is seeded *)

LowElo == 10 * PerPoint
InitElos == {LowElo, DefaultElo}

NoRequest == [rawWinner |-> "", rawLoser |-> "", ip |-> "ip1", cookie |-> NoCookie,
              sessionId |-> NoCookie]
NotRead == [st |-> "pending", elo |-> 0]

NoImage == [st |-> "pending", id |-> 0]

\* no asset request yet
NoAsset == [filename |-> << >>, status |-> 0, body |-> << >>]

\* no leaderboard request yet
NoRows == [st |-> "pending", rows |-> << >>]
NoHome == [pc |-> "idle", totalImages |-> 0, topImages |-> NoRows,
           bottomImages |-> NoRows]

\* the allowed directory, "/Volumes/T7/optimized", as its path segments
Root == <<"Volumes", "T7", "optimized">>

\* everything but the table, its id sequence and the file system
InitRequests ==
    /\ clock = 0
    /\ rateLimitMap = << >>
    /\ sessionRateLimitMap = << >>
    /\ pc = [p \in Slots |-> "idle"]
    /\ req = [p \in Slots |-> NoRequest]
    /\ winner = [p \in Slots |-> NotRead]
    /\ loser = [p \in Slots |-> NotRead]
    /\ result = [p \in Slots |-> "none"]
    /\ logged = [p \in Slots |-> "none"]
    /\ admittedIP = [ip \in ClientIPs |-> <<>>]
    /\ admittedSession = [s \in AllSessions |-> <<>>]
    /\ nreq = 0
    /\ nbursts = 0
    /\ nticks = 0
    /\ nfresh = 0
    /\ lpc = "idle"
    /\ totalImages = 0
    /\ random = 0
    /\ randomOffset1 = 0
    /\ randomOffset2 = 0
    /\ imageA = NoImage
    /\ imageB = NoImage
    /\ lresult = "none"
    /\ changed = FALSE
    /\ nloads = 0
    /\ nadmin = 0
    /\ asset = NoAsset
    /\ nassets = 0
    /\ home = NoHome
    /\ nhome = 0

\* everything but the table and its id sequence
InitRest ==
    /\ InitRequests
    /\ fs = [files |-> {Root \o <<"a">>}, links |-> << >>]

Init ==
    /\ elo \in [ItemIds -> InitElos]
    /\ nextId = Cardinality(ItemIds) + 1
    /\ InitRest

-----------------------------------------------------------------------------
(* The handler `action`, one await-free stretch per action *)

\* Lines 106-113.  A slot takes a new request when it holds none.
Submit(p, rw, rl, ip, cookie) ==
    /\ pc[p] \in {"idle", "done"}
    /\ cookie = NoCookie =>
         nfresh + Cardinality({q \in Slots : pc[q] = "validated" /\ req[q].cookie = NoCookie})
            < Len(FreshIds)
    /\ req' = [req EXCEPT ![p] = [rawWinner |-> rw, rawLoser |-> rl, ip |-> ip,
                                  cookie |-> cookie, sessionId |-> NoCookie]]
    /\ winner' = [winner EXCEPT ![p] = NotRead]
    /\ loser' = [loser EXCEPT ![p] = NotRead]
    /\ logged' = [logged EXCEPT ![p] = "none"]
    /\ IF InvalidIds(Number(rw), Number(rl))
         THEN /\ pc' = [pc EXCEPT ![p] = "done"]
              /\ result' = [result EXCEPT ![p] = "InvalidImageIds"]
         ELSE /\ pc' = [pc EXCEPT ![p] = "validated"]
              /\ result' = [result EXCEPT ![p] = "none"]
    /\ nreq' = nreq + 1
    /\ UNCHANGED <<clock, elo, rateLimitMap, sessionRateLimitMap, admittedIP,
                   admittedSession, nbursts, nticks, nfresh, loaderVars>>

\* the IP limit tested with > where the source has >=
IPLimitedOffByOne(recentIPRequests) == Len(recentIPRequests) > maxRequestsPerIP

\* line 148
IPLimited(recentIPRequests) == Len(recentIPRequests) >= maxRequestsPerIP

\* line 160
SessionLimited(recentSessionRequests) ==
    Len(recentSessionRequests) >= maxRequestsPerSession

\* the session limiter consulted before the IP limiter
LimiterSessionFirst(ipMap, sessMap, clientIP, sessionId, now) ==
    LET ipMap1 == Ensure(ipMap, clientIP, now)
        recentIPRequests == Recent(ipMap1[clientIP].requests, now)
        sessMap1 == Ensure(sessMap, sessionId, now)
        recentSessionRequests == Recent(sessMap1[sessionId].requests, now)
    IN  IF SessionLimited(recentSessionRequests)
          THEN [ip |-> ipMap1, sess |-> sessMap1, verdict |-> "RateLimitSession429"]
          ELSE IF IPLimited(recentIPRequests)
          THEN [ip |-> ipMap1, sess |-> sessMap1, verdict |-> "RateLimitIP429"]
          ELSE [ip |-> Push(ipMap1, clientIP, now),
                sess |-> Push(sessMap1, sessionId, now),
                verdict |-> "admitted"]

\* the IP timestamp pushed as soon as the IP limiter has passed
LimiterPushEarly(ipMap, sessMap, clientIP, sessionId, now) ==
    LET ipMap1 == Ensure(ipMap, clientIP, now)
        recentIPRequests == Recent(ipMap1[clientIP].requests, now)
        sessMap1 == Ensure(sessMap, sessionId, now)
        recentSessionRequests == Recent(sessMap1[sessionId].requests, now)
    IN  IF IPLimited(recentIPRequests)
          THEN [ip |-> ipMap1, sess |-> sessMap, verdict |-> "RateLimitIP429"]
          ELSE IF SessionLimited(recentSessionRequests)
          THEN [ip |-> Push(ipMap1, clientIP, now), sess |-> sessMap1,
                verdict |-> "RateLimitSession429"]
          ELSE [ip |-> Push(ipMap1, clientIP, now),
                sess |-> Push(sessMap1, sessionId, now),
                verdict |-> "admitted"]

\* a limiter that admits without recording the request
LimiterNoCharge(ipMap, sessMap, clientIP, sessionId, now) ==
    LET ipMap1 == Ensure(ipMap, clientIP, now)
        recentIPRequests == Recent(ipMap1[clientIP].requests, now)
        sessMap1 == Ensure(sessMap, sessionId, now)
        recentSessionRequests == Recent(sessMap1[sessionId].requests, now)
    IN  IF IPLimited(recentIPRequests)
          THEN [ip |-> ipMap1, sess |-> sessMap, verdict |-> "RateLimitIP429"]
          ELSE IF SessionLimited(recentSessionRequests)
          THEN [ip |-> ipMap1, sess |-> sessMap1, verdict |-> "RateLimitSession429"]
          ELSE [ip |-> ipMap1, sess |-> sessMap1, verdict |-> "admitted"]

\* Lines 140-169 on the two maps: the maps they leave and what they decide.
Limiter(ipMap, sessMap, clientIP, sessionId, now) ==
    LET ipMap1 == Ensure(ipMap, clientIP, now)
        recentIPRequests == Recent(ipMap1[clientIP].requests, now)
        sessMap1 == Ensure(sessMap, sessionId, now)
        recentSessionRequests == Recent(sessMap1[sessionId].requests, now)
    IN  IF IPLimited(recentIPRequests)
          THEN [ip |-> ipMap1, sess |-> sessMap, verdict |-> "RateLimitIP429"]
          ELSE IF SessionLimited(recentSessionRequests)
          THEN [ip |-> ipMap1, sess |-> sessMap1, verdict |-> "RateLimitSession429"]
          ELSE [ip |-> Push(ipMap1, clientIP, now),
                sess |-> Push(sessMap1, sessionId, now),
                verdict |-> "admitted"]

\* Lines 116-169.  doCleanup is Math.random() < 0.1; cleanupRateLimit reads the
\* clock again, lag ms after the handler read it.
RateLimit(p, doCleanup, lag) ==
    /\ pc[p] = "validated"
    /\ LET fresh == req[p].cookie = NoCookie
           sessionId == IF fresh THEN FreshIds[nfresh + 1] ELSE req[p].cookie
           clientIP == req[p].ip
           now == clock
           ipMap0 == IF doCleanup THEN CleanupMap(rateLimitMap, now + lag)
                                  ELSE rateLimitMap
           sessMap0 == IF doCleanup THEN CleanupMap(sessionRateLimitMap, now + lag)
                                    ELSE sessionRateLimitMap
           out == Limiter(ipMap0, sessMap0, clientIP, sessionId, now)
       IN  /\ req' = [req EXCEPT ![p].sessionId = sessionId]
           /\ nfresh' = IF fresh THEN nfresh + 1 ELSE nfresh
           /\ clock' = now + lag
           /\ rateLimitMap' = out.ip
           /\ sessionRateLimitMap' = out.sess
           /\ IF out.verdict = "admitted"
                THEN /\ pc' = [pc EXCEPT ![p] = "admitted"]
                     /\ admittedIP' = [admittedIP EXCEPT ![clientIP] = Append(@, now)]
                     /\ admittedSession' =
                            [admittedSession EXCEPT ![sessionId] = Append(@, now)]
                     /\ UNCHANGED result
                ELSE /\ pc' = [pc EXCEPT ![p] = "done"]
                     /\ result' = [result EXCEPT ![p] = out.verdict]
                     /\ UNCHANGED <<admittedIP, admittedSession>>
    /\ UNCHANGED <<elo, winner, loser, logged, nreq, nbursts, nticks, loaderVars>>

\* What reaches the boundary.  The two limiter rejections are thrown as a
\* Response that carries status 429 (lines 149 and 161); success is a Response
\* of status 200 (line 212); every other failure is thrown as a plain Error
\* (lines 112 and 215), which carries no status and which the framework answers
\* as an internal error, status 500.
Thrown(res) ==
    CASE res \in {"RateLimitIP429", "RateLimitSession429"} -> "Response"
      [] res \in {"InvalidImageIds", "FailedToUpdate"} -> "Error"
      [] OTHER -> "none"

status(res) ==
    CASE Thrown(res) = "Response" -> 429
      [] Thrown(res) = "Error" -> 500
      [] OTHER -> 200

\* db.image.findUnique({ where: { id } }): the row, or null.
findUnique(id) ==
    IF IntOf(id) \in DOMAIN elo
      THEN [st |-> "row", elo |-> elo[IntOf(id)]]
      ELSE [st |-> "null", elo |-> 0]

\* a catch block that logs the error and lets the handler return normally
CaughtSwallowed(p, error) ==
    /\ pc' = [pc EXCEPT ![p] = "done"]
    /\ logged' = [logged EXCEPT ![p] = error]
    /\ result' = [result EXCEPT ![p] = "Success"]

\* Lines 213-216: every error thrown inside the try block is logged and replaced.
Caught(p, error) ==
    /\ pc' = [pc EXCEPT ![p] = "done"]
    /\ logged' = [logged EXCEPT ![p] = error]
    /\ result' = [result EXCEPT ![p] = "FailedToUpdate"]

\* Lines 174-177.  An id that is no integer is refused by the client library
\* (the id column is Int), which rejects the query.
ReadWinner(p) ==
    /\ pc[p] = "admitted"
    /\ winner[p].st = "pending"
    /\ IF IsInteger(winnerId(p))
         THEN /\ winner' = [winner EXCEPT ![p] = findUnique(winnerId(p))]
              /\ UNCHANGED <<pc, logged, result>>
         ELSE /\ Caught(p, "ValidationError")
              /\ UNCHANGED winner
    /\ UNCHANGED <<clock, elo, rateLimitMap, sessionRateLimitMap, req, loser,
                   admittedIP, admittedSession, nreq, nbursts, nticks, nfresh, loaderVars>>

\* Lines 178-181.
ReadLoser(p) ==
    /\ pc[p] = "admitted"
    /\ loser[p].st = "pending"
    /\ IF IsInteger(loserId(p))
         THEN /\ loser' = [loser EXCEPT ![p] = findUnique(loserId(p))]
              /\ UNCHANGED <<pc, logged, result>>
         ELSE /\ Caught(p, "ValidationError")
              /\ UNCHANGED loser
    /\ UNCHANGED <<clock, elo, rateLimitMap, sessionRateLimitMap, req, winner,
                   admittedIP, admittedSession, nreq, nbursts, nticks, nfresh, loaderVars>>

BothRead(p) == winner[p].st # "pending" /\ loser[p].st # "pending"

\* line 184
Missing(p) == winner[p].st = "null" \/ loser[p].st = "null"

\* Lines 184-186, then 213-216.
NotFound(p) ==
    /\ pc[p] = "admitted"
    /\ BothRead(p)
    /\ Missing(p)
    /\ Caught(p, "ImagesNotFound")
    /\ UNCHANGED <<clock, elo, rateLimitMap, sessionRateLimitMap, req, winner, loser,
                   admittedIP, admittedSession, nreq, nbursts, nticks, nfresh, loaderVars>>

\* a transaction whose second update has no where clause: every row but the
\* winner's gets the loser's new rating
TransactionAllLosers(table, wId, wElo, lId, lElo) ==
    [i \in DOMAIN table |-> IF i = wId THEN wElo ELSE lElo]

\* a transaction that reports success and writes nothing
TransactionNotApplied(table, wId, wElo, lId, lElo) == table

\* db.$transaction([update winner, update loser]), lines 197-206, committed.
Transaction(table, wId, wElo, lId, lElo) ==
    [[table EXCEPT ![wId] = wElo] EXCEPT ![lId] = lElo]

\* the winner's rating recomputed from the table at commit time
WrittenWinnerEloFresh(p) ==
    newWinnerElo(elo[IntOf(winnerId(p))], elo[IntOf(loserId(p))])

\* The ratings a request writes: computed from the rows it read, lines 190-194.
WrittenWinnerElo(p) == newWinnerElo(winner[p].elo, loser[p].elo)
WrittenLoserElo(p) == newLoserElo(winner[p].elo, loser[p].elo)

\* Lines 188-212: the transaction commits and the handler returns success.
Commit(p) ==
    /\ pc[p] = "admitted"
    /\ BothRead(p)
    /\ ~Missing(p)
    /\ elo' = Transaction(elo, IntOf(winnerId(p)), WrittenWinnerElo(p),
                          IntOf(loserId(p)), WrittenLoserElo(p))
    /\ pc' = [pc EXCEPT ![p] = "done"]
    /\ result' = [result EXCEPT ![p] = "Success"]
    /\ UNCHANGED <<clock, rateLimitMap, sessionRateLimitMap, req, winner, loser,
                   logged, admittedIP, admittedSession, nreq, nbursts, nticks, nfresh, loaderVars>>

\* a failure after the first update that leaves that update in the table
PartialWrite(table, wId, wElo, lId, lElo) == [table EXCEPT ![wId] = wElo]

\* What a transaction that fails leaves in the table: it is rolled back.
RolledBack(table, wId, wElo, lId, lElo) == table

\* Lines 197-206 reject (connection lost, timeout, ...), then 213-216.
TxFail(p) ==
    /\ pc[p] = "admitted"
    /\ BothRead(p)
    /\ ~Missing(p)
    /\ elo' = RolledBack(elo, IntOf(winnerId(p)), WrittenWinnerElo(p),
                         IntOf(loserId(p)), WrittenLoserElo(p))
    /\ Caught(p, "TransactionError")
    /\ UNCHANGED <<clock, rateLimitMap, sessionRateLimitMap, req, winner, loser,
                   admittedIP, admittedSession, nreq, nbursts, nticks, nfresh, loaderVars>>

\* Time passes.
TickSteps == {1, windowMs - 1, cleanupInterval}

Tick(d) ==
    /\ nticks < MaxTicks
    /\ clock' = clock + d
    /\ nticks' = nticks + 1
    /\ UNCHANGED <<elo, rateLimitMap, sessionRateLimitMap, pc, req, winner, loser,
                   result, logged, admittedIP, admittedSession, nreq, nbursts, nfresh, loaderVars>>

\* n requests of one client handled one after the other, each to its end, at
\* one clock reading and without cleanup: n times lines 116-169, then the two
\* reads and lines 184-186 for items that do not exist.
RECURSIVE BurstRun(_, _, _, _, _, _, _)
BurstRun(n, ipMap, sessMap, clientIP, sessionId, now, admitted) ==
    IF n = 0
      THEN [ip |-> ipMap, sess |-> sessMap, admitted |-> admitted]
      ELSE LET out == Limiter(ipMap, sessMap, clientIP, sessionId, now)
           IN  IF out.verdict = "admitted"
                 THEN BurstRun(n - 1, out.ip, out.sess, clientIP, sessionId, now,
                               admitted + 1)
                 ELSE BurstRun(n - 1, out.ip, out.sess, clientIP, sessionId, now,
                               admitted)

Burst(n, clientIP, sessionId) ==
    /\ nbursts < MaxBursts
    /\ \A p \in Slots : pc[p] \in {"idle", "done"}
    /\ LET run == BurstRun(n, rateLimitMap, sessionRateLimitMap, clientIP, sessionId,
                           clock, 0)
           stamps == [i \in 1..run.admitted |-> clock]
       IN  /\ rateLimitMap' = run.ip
           /\ sessionRateLimitMap' = run.sess
           /\ admittedIP' = [admittedIP EXCEPT ![clientIP] = @ \o stamps]
           /\ admittedSession' = [admittedSession EXCEPT ![sessionId] = @ \o stamps]
    /\ nbursts' = nbursts + 1
    /\ UNCHANGED <<clock, elo, pc, req, winner, loser, result, logged, nreq, nticks,
                   nfresh, loaderVars>>

-----------------------------------------------------------------------------
(* The comparison request `loader`, lines 5-56, one await-free stretch per  *)
(* action, and the administration of the table                             *)

\* The values Math.random() returns, in quarters: 0, 1/4, 1/2, 3/4.
Randoms == {0, 1, 2, 3}

\* Math.floor(Math.random() * totalImages), u the value of Math.random()
RandomOffset(u, total) == (u * total) \div Cardinality(Randoms)

\* the ids of a set of rows in ascending order (the order of the primary key)
RECURSIVE ById(_)
ById(ids) ==
    IF ids = {} THEN <<>>
    ELSE LET least == CHOOSE i \in ids : \A j \in ids : i <= j
         IN  <<least>> \o ById(ids \ {least})

\* db.image.findFirst({ skip }): the row after the first `skip` rows, or null.
findFirst(skip) ==
    LET rows == ById(DOMAIN elo)
    IN  IF skip < Len(rows)
          THEN [st |-> "row", id |-> rows[skip + 1]]
          ELSE [st |-> "null", id |-> 0]

\* Lines 11-15: count the rows; fewer than 2 is an error.
LoaderCount ==
    /\ lpc \in {"idle", "done"}
    /\ totalImages' = Cardinality(DOMAIN elo)
    /\ IF totalImages' < 2
         THEN lpc' = "done" /\ lresult' = "NeedAtLeast2Images"
         ELSE lpc' = "counted" /\ lresult' = "none"
    /\ random' = 0
    /\ randomOffset1' = 0
    /\ randomOffset2' = 0
    /\ imageA' = NoImage
    /\ imageB' = NoImage
    /\ changed' = FALSE
    /\ nloads' = nloads + 1
    /\ UNCHANGED <<clock, elo, rateLimitMap, sessionRateLimitMap, pc, req, winner,
                   loser, result, logged, admittedIP, admittedSession, nreq, nbursts,
                   nticks, nfresh, nextId, nadmin, pageVars>>

\* Lines 18-19: the two offsets.
LoaderDraw(u1, u2) ==
    /\ lpc = "counted"
    /\ randomOffset1' = RandomOffset(u1, totalImages)
    /\ randomOffset2' = RandomOffset(u2, totalImages)
    /\ random' = u2
    /\ lpc' = "drawn"
    /\ UNCHANGED <<clock, elo, rateLimitMap, sessionRateLimitMap, pc, req, winner,
                   loser, result, logged, admittedIP, admittedSession, nreq, nbursts,
                   nticks, nfresh, totalImages, imageA, imageB, lresult, nextId,
                   changed, nloads, nadmin, pageVars>>

\* a loop condition that never holds
CollideNever(offset1, offset2) == FALSE

\* line 22: randomOffset2 === randomOffset1
Collide(offset1, offset2) == offset2 = offset1

\* Lines 22-24: one turn of the while loop.
LoaderRedraw(u) ==
    /\ lpc = "drawn"
    /\ Collide(randomOffset1, randomOffset2)
    /\ randomOffset2' = RandomOffset(u, totalImages)
    /\ random' = u
    /\ UNCHANGED <<clock, elo, rateLimitMap, sessionRateLimitMap, pc, req, winner,
                   loser, result, logged, admittedIP, admittedSession, nreq, nbursts,
                   nticks, nfresh, lpc, totalImages, randomOffset1, imageA, imageB,
                   lresult, nextId, changed, nloads, nadmin, pageVars>>

\* Lines 28-36: the first of the two queries of Promise.all.
LookupA ==
    /\ lpc = "drawn"
    /\ ~Collide(randomOffset1, randomOffset2)
    /\ imageA.st = "pending"
    /\ imageA' = findFirst(randomOffset1)
    /\ UNCHANGED <<clock, elo, rateLimitMap, sessionRateLimitMap, pc, req, winner,
                   loser, result, logged, admittedIP, admittedSession, nreq, nbursts,
                   nticks, nfresh, lpc, totalImages, random, randomOffset1,
                   randomOffset2, imageB, lresult, nextId, changed, nloads, nadmin, pageVars>>

\* Lines 37-45: the second.
LookupB ==
    /\ lpc = "drawn"
    /\ ~Collide(randomOffset1, randomOffset2)
    /\ imageB.st = "pending"
    /\ imageB' = findFirst(randomOffset2)
    /\ UNCHANGED <<clock, elo, rateLimitMap, sessionRateLimitMap, pc, req, winner,
                   loser, result, logged, admittedIP, admittedSession, nreq, nbursts,
                   nticks, nfresh, lpc, totalImages, random, randomOffset1,
                   randomOffset2, imageA, lresult, nextId, changed, nloads, nadmin, pageVars>>

\* Lines 48-55: both queries have answered.
LoaderReturn ==
    /\ lpc = "drawn"
    /\ imageA.st # "pending"
    /\ imageB.st # "pending"
    /\ lpc' = "done"
    /\ lresult' = IF imageA.st = "null" \/ imageB.st = "null"
                    THEN "FailedToLoadImages"
                    ELSE "Pair"
    /\ UNCHANGED <<clock, elo, rateLimitMap, sessionRateLimitMap, pc, req, winner,
                   loser, result, logged, admittedIP, admittedSession, nreq, nbursts,
                   nticks, nfresh, totalImages, random, randomOffset1, randomOffset2,
                   imageA, imageB, nextId, changed, nloads, nadmin, pageVars>>

\* A row is inserted with the default rating; its id comes from the sequence.
InsertItem ==
    /\ elo' = (nextId :> DefaultElo) @@ elo
    /\ nextId' = nextId + 1
    /\ changed' = TRUE
    /\ nadmin' = nadmin + 1
    /\ UNCHANGED <<clock, rateLimitMap, sessionRateLimitMap, pc, req, winner, loser,
                   result, logged, admittedIP, admittedSession, nreq, nbursts, nticks,
                   nfresh, lpc, totalImages, random, randomOffset1, randomOffset2,
                   imageA, imageB, lresult, nloads, pageVars>>

\* A row is deleted.
DeleteItem(id) ==
    /\ id \in DOMAIN elo
    /\ elo' = [i \in DOMAIN elo \ {id} |-> elo[i]]
    /\ changed' = TRUE
    /\ nadmin' = nadmin + 1
    /\ UNCHANGED <<clock, rateLimitMap, sessionRateLimitMap, pc, req, winner, loser,
                   result, logged, admittedIP, admittedSession, nreq, nbursts, nticks,
                   nfresh, lpc, totalImages, random, randomOffset1, randomOffset2,
                   imageA, imageB, lresult, nextId, nloads, pageVars>>

-----------------------------------------------------------------------------
(* The two vote forms of the comparison page, compare.tsx lines 116-118 and *)
(* 166-168: the button under image A submits A as the winner, the button    *)
(* under image B submits B as the winner.                                   *)

\* value={image.id}: the id as the text of the hidden input
IdText(id) ==
    CASE id = 1 -> "1"
      [] id = 2 -> "2"
      [] id = 3 -> "3"
      [] id = 9 -> "9"

\* a page whose two forms both name image A as the winner
FormWinnerAlwaysA(idA, idB, choice) == IdText(idA)

FormWinner(idA, idB, choice) == IF choice = "A" THEN IdText(idA) ELSE IdText(idB)
FormLoser(idA, idB, choice) == IF choice = "A" THEN IdText(idB) ELSE IdText(idA)

-----------------------------------------------------------------------------
(* Spec: concurrent votes on the table, from one client *)

SubmitVote ==
    \E p \in Slots, rw \in RawIds, rl \in RawIds, c \in {"s1", NoCookie} :
        nreq < MaxVotes /\ Submit(p, rw, rl, "ip1", c)

CheckLimits == \E p \in Slots, doCleanup \in BOOLEAN : RateLimit(p, doCleanup, 0)

FindWinner == \E p \in Slots : ReadWinner(p)
FindLoser == \E p \in Slots : ReadLoser(p)
ImagesNotFound == \E p \in Slots : NotFound(p)
CommitVote == \E p \in Slots : Commit(p)
FailVote == \E p \in Slots : TxFail(p)

Next ==
    \/ SubmitVote
    \/ CheckLimits
    \/ FindWinner
    \/ FindLoser
    \/ ImagesNotFound
    \/ CommitVote
    \/ FailVote

Spec == Init /\ [][Next]_vars

-----------------------------------------------------------------------------
(* SpecRL: the rate limiter under load.  Three clients, two of them behind *)
(* one IP and two of them sharing one session, one request in flight at a  *)
(* time; every vote names an item that does not exist, so the table stays  *)
(* as it is.                                                               *)

Clients == {<<"ip1", "s1">>, <<"ip1", "s2">>, <<"ip2", "s1">>}
BurstSizes == {maxRequestsPerSession, maxRequestsPerIP - maxRequestsPerSession}
CleanupLags == {0, 1}

SlotsRL == {1}

SubmitRL ==
    \E p \in SlotsRL, c \in Clients :
        nreq < MaxSingles /\ Submit(p, "1", "9", c[1], c[2])

CheckLimitsRL ==
    \E p \in Slots, doCleanup \in BOOLEAN, lag \in CleanupLags :
        (lag = 0 \/ doCleanup) /\ RateLimit(p, doCleanup, lag)

\* The bursts come before the requests followed one by one.
BurstRL == \E n \in BurstSizes, c \in Clients : nreq = 0 /\ Burst(n, c[1], c[2])

TickRL == \E d \in TickSteps : Tick(d)

NextRL ==
    \/ SubmitRL
    \/ CheckLimitsRL
    \/ BurstRL
    \/ TickRL
    \/ FindWinner
    \/ FindLoser
    \/ ImagesNotFound

InitRL == Init /\ elo = [i \in ItemIds |-> DefaultElo]

SpecRL == InitRL /\ [][NextRL]_vars

-----------------------------------------------------------------------------
(* SpecSame: requests of one client in flight at the same time, with the   *)
(* session one request short of its limit after a burst.                   *)

SameClient == <<"ip1", "s1">>

SubmitSame ==
    \E p \in Slots :
        nreq < MaxSame /\ Submit(p, "1", "9", SameClient[1], SameClient[2])

BurstSame ==
    nreq = 0 /\ Burst(maxRequestsPerSession - 1, SameClient[1], SameClient[2])

NextSame ==
    \/ SubmitSame
    \/ CheckLimitsRL
    \/ BurstSame
    \/ TickRL
    \/ FindWinner
    \/ FindLoser
    \/ ImagesNotFound

SpecSame == InitRL /\ [][NextSame]_vars

-----------------------------------------------------------------------------
(* SpecSample: comparison requests against a table of 0 to 3 rows to which *)
(* rows are added and from which rows are removed meanwhile.  The loader   *)
(* runs whenever it can (weak fairness): Node runs a handler to its end.   *)

MaxLoads == 2        \* comparison requests in a behaviour of SpecSample
MaxAdmin == 2        \* rows inserted or deleted in a behaviour of SpecSample
MaxItems == 3        \* rows of the table at the start of a behaviour of SpecSample

StartLoad == nloads < MaxLoads /\ LoaderCount
DrawOffsets == \E u1 \in Randoms, u2 \in Randoms : LoaderDraw(u1, u2)
RedrawOffset == \E u \in Randoms : LoaderRedraw(u)
Insert == nadmin < MaxAdmin /\ InsertItem
Delete == \E id \in DOMAIN elo : nadmin < MaxAdmin /\ DeleteItem(id)

LoaderStep ==
    \/ StartLoad
    \/ DrawOffsets
    \/ RedrawOffset
    \/ LookupA
    \/ LookupB
    \/ LoaderReturn

NextSample ==
    \/ StartLoad
    \/ DrawOffsets
    \/ RedrawOffset
    \/ LookupA
    \/ LookupB
    \/ LoaderReturn
    \/ Insert
    \/ Delete

InitSample ==
    /\ \E n \in 0..MaxItems :
          /\ elo = [i \in 1..n |-> DefaultElo]
          /\ nextId = n + 1
    /\ InitRest

SpecSample == InitSample /\ [][NextSample]_vars /\ WF_vars(LoaderStep)

-----------------------------------------------------------------------------
(* SpecElo: votes handled one after the other on a table of two rows, each  *)
(* submitted from one of the two forms of a comparison page.  The ratings   *)
(* at the start are at most 400 points apart, where the thousandths of the  *)
(* expected score tell one difference of ratings from the next.             *)

EloGrid == {0, LowElo, DefaultElo, 1216 * PerPoint, 1600 * PerPoint}

EloPairs ==
    {t \in [ItemIds -> EloGrid] :
        \A i \in ItemIds, j \in ItemIds : t[i] - t[j] <= 400 * PerPoint}

\* The requests take the slots in turn, and one is submitted when none is in
\* flight.
NextSlot == (nreq % Cardinality(Slots)) + 1

SubmitElo ==
    \E idA \in ItemIds, idB \in ItemIds, choice \in {"A", "B"} :
        /\ idA # idB
        /\ nreq < MaxVotes
        /\ \A p \in Slots : pc[p] \in {"idle", "done"}
        /\ Submit(NextSlot, FormWinner(idA, idB, choice), FormLoser(idA, idB, choice),
                  "ip1", "s1")

NextElo ==
    \/ SubmitElo
    \/ CheckLimits
    \/ FindWinner
    \/ FindLoser
    \/ CommitVote
    \/ FailVote

InitElo ==
    /\ elo \in EloPairs
    /\ nextId = Cardinality(ItemIds) + 1
    /\ InitRest

SpecElo == InitElo /\ [][NextElo]_vars

-----------------------------------------------------------------------------
(* SpecGC: one client that falls silent and one that keeps voting.  Time    *)
(* advances, between requests, by steps longer than the housekeeping        *)
(* interval; the silent client votes only while the clock has steps left;   *)
(* every period between two steps of the clock has its quota of requests,   *)
(* and the request that ends a period runs the cleanup (the cleanup runs    *)
(* again and again).  Everything that can happen does happen (weak          *)
(* fairness): requests are handled to their end.                            *)

MaxPerPeriod == 2    \* requests submitted between two clock advances in SpecGC

Silent == <<"ip1", "s1">>
Voting == <<"ip2", "s2">>
QuietSteps == {cleanupInterval + 1}

\* no further request can be submitted before the clock advances
PeriodOver == nreq >= MaxPerPeriod * (nticks + 1)

SubmitGC ==
    \E p \in SlotsRL, c \in {Silent, Voting} :
        /\ ~PeriodOver
        /\ c = Silent => nticks < MaxTicks
        /\ Submit(p, "1", "9", c[1], c[2])

CheckLimitsGC ==
    \E p \in SlotsRL, doCleanup \in BOOLEAN, lag \in CleanupLags :
        /\ lag = 0 \/ doCleanup
        /\ PeriodOver => doCleanup
        /\ RateLimit(p, doCleanup, lag)

TickGC ==
    \E d \in QuietSteps :
        /\ \A p \in Slots : pc[p] \in {"idle", "done"}
        /\ Tick(d)

NextGC ==
    \/ SubmitGC
    \/ CheckLimitsGC
    \/ TickGC
    \/ FindWinner
    \/ FindLoser
    \/ ImagesNotFound

SpecGC == InitRL /\ [][NextGC]_vars /\ WF_vars(NextGC)

-----------------------------------------------------------------------------
(* The asset loader, external-images.$.tsx lines 5-48.  A path is the       *)
(* sequence of its segments; a string is the sequence of its characters.   *)

\* the characters of a segment
Chars(name) ==
    CASE name = "Volumes"    -> <<"V", "o", "l", "u", "m", "e", "s">>
      [] name = "T7"         -> <<"T", "7">>
      [] name = "optimized"  -> <<"o", "p", "t", "i", "m", "i", "z", "e", "d">>
      [] name = "optimized2" -> <<"o", "p", "t", "i", "m", "i", "z", "e", "d", "2">>
      [] name = "other"      -> <<"o", "t", "h", "e", "r">>
      [] name = "link"       -> <<"l", "i", "n", "k">>
      [] name = "missing"    -> <<"m", "i", "s", "s", "i", "n", "g">>
      [] name = ".."         -> <<".", ".">>
      [] OTHER               -> <<name>>

\* the absolute path as a string: "/" before every segment
RECURSIVE PathString(_)
PathString(p) ==
    IF p = << >> THEN << >>
    ELSE PathString(SubSeq(p, 1, Len(p) - 1)) \o <<"/">> \o Chars(p[Len(p)])

\* String.prototype.startsWith
startsWith(str, prefix) ==
    /\ Len(str) >= Len(prefix)
    /\ SubSeq(str, 1, Len(prefix)) = prefix

\* path.join of an absolute path and a relative one: the segments of both,
\* normalised ("." is dropped, ".." drops the segment before it and is
\* dropped itself at the root)
RECURSIVE normalize(_, _)
normalize(done, rest) ==
    IF rest = << >> THEN done
    ELSE LET seg == Head(rest) IN
         normalize(CASE seg = "."  -> done
                     [] seg = ".." -> IF done = << >> THEN << >>
                                      ELSE SubSeq(done, 1, Len(done) - 1)
                     [] OTHER      -> Append(done, seg),
                   Tail(rest))

join(dir, filename) == normalize(<< >>, dir \o filename)

\* the directories of the volume
Sibling == <<"Volumes", "T7", "optimized2">>
Other == <<"Volumes", "T7", "other">>
Dirs == {<< >>, <<"Volumes">>, <<"Volumes", "T7">>, Root, Sibling, Other}

\* the files that may be there, and what a symbolic link of the allowed
\* directory may point at
SomeFiles == {Root \o <<"a">>, Sibling \o <<"x">>, Other \o <<"y">>}
LinkPath == Root \o <<"link">>
Disks ==
    {[files |-> f, links |-> l] :
        f \in SUBSET SomeFiles,
        l \in {<< >>} \cup {(LinkPath :> t) : t \in SomeFiles}}

\* fs.realpathSync: a symbolic link is replaced by what it points at
realpathSync(disk, p) ==
    IF p \in DOMAIN disk.links THEN disk.links[p] ELSE p

\* fs.existsSync: the path, links followed, is a file or a directory
existsSync(disk, p) == realpathSync(disk, p) \in disk.files \cup Dirs

\* the filenames requested: params["*"], as segments
Filenames ==
    {<< >>, <<"a">>, <<"link">>, <<"missing">>, <<"..">>,
     <<"..", "optimized2">>, <<"..", "optimized2", "x">>, <<"..", "other", "y">>}

\* what the loader answers: its status and, with 200, the file whose bytes
\* it read.  readFileSync follows links and throws on a directory, which the
\* framework answers with 500.
Response(disk, filename) ==
    LET filePath == join(Root, filename)
        realPath == realpathSync(disk, filePath)
        allowedDir == realpathSync(disk, Root)
    IN  IF filename = << >> THEN [status |-> 404, body |-> << >>]
        ELSE IF ~existsSync(disk, filePath) THEN [status |-> 404, body |-> << >>]
        ELSE IF ~startsWith(PathString(realPath), PathString(allowedDir))
             THEN [status |-> 403, body |-> << >>]
        ELSE IF realPath \in Dirs THEN [status |-> 500, body |-> << >>]
        ELSE [status |-> 200, body |-> realPath]

\* Lines 5-48: one asset request, from its arrival to its response.
AssetLoader(filename) ==
    /\ asset' = [filename |-> filename,
                 status   |-> Response(fs, filename).status,
                 body     |-> Response(fs, filename).body]
    /\ nassets' = nassets + 1
    /\ UNCHANGED <<clock, elo, rateLimitMap, sessionRateLimitMap, pc, req, winner,
                   loser, result, logged, admittedIP, admittedSession, nreq, nbursts,
                   nticks, nfresh, lpc, totalImages, random, randomOffset1,
                   randomOffset2, imageA, imageB, lresult, nextId, changed, nloads,
                   nadmin, fs, home, nhome>>

-----------------------------------------------------------------------------
(* The leaderboard loader, home.tsx lines 6-45.  A row of a result is the   *)
(* rating of its item: the queries select name, url and elo.               *)

take == 50

\* the ratings of the rows ids, lowest first
RECURSIVE Ascending(_, _)
Ascending(table, ids) ==
    IF ids = {} THEN << >>
    ELSE LET m == CHOOSE i \in ids : \A j \in ids : table[i] <= table[j]
         IN  <<table[m]>> \o Ascending(table, ids \ {m})

\* Array.prototype.reverse
reverse(rows) == [i \in 1..Len(rows) |-> rows[Len(rows) + 1 - i]]

\* findMany({orderBy: {elo: dir}, take: n})
findMany(table, dir, n) ==
    LET sorted == IF dir = "asc" THEN Ascending(table, DOMAIN table)
                  ELSE reverse(Ascending(table, DOMAIN table))
    IN  SubSeq(sorted, 1, IF Len(sorted) < n THEN Len(sorted) ELSE n)

HomeUnchanged ==
    UNCHANGED <<clock, elo, rateLimitMap, sessionRateLimitMap, pc, req, winner,
                loser, result, logged, admittedIP, admittedSession, nreq, nbursts,
                nticks, nfresh, lpc, totalImages, random, randomOffset1,
                randomOffset2, imageA, imageB, lresult, nextId, changed, nloads,
                nadmin, fs, asset, nassets>>

\* Line 12: a request arrives and the rows are counted.
HomeCount ==
    /\ home.pc \in {"idle", "done"}
    /\ home' = [NoHome EXCEPT !.pc = "counted",
                              !.totalImages = Cardinality(DOMAIN elo)]
    /\ nhome' = nhome + 1
    /\ HomeUnchanged

\* Lines 16-24: the first query of the Promise.all is answered.
HomeTop ==
    /\ home.pc = "counted"
    /\ home.topImages.st = "pending"
    /\ home' = [home EXCEPT !.topImages =
                    [st |-> "read", rows |-> findMany(elo, "desc", take)]]
    /\ UNCHANGED nhome
    /\ HomeUnchanged

\* Lines 25-33: the second query of the Promise.all is answered.
HomeBottom ==
    /\ home.pc = "counted"
    /\ home.bottomImages.st = "pending"
    /\ home' = [home EXCEPT !.bottomImages =
                    [st |-> "read", rows |-> findMany(elo, "asc", take)]]
    /\ UNCHANGED nhome
    /\ HomeUnchanged

\* Lines 37-44: bottomImages is reversed in place and the three are returned.
HomeReturn ==
    /\ home.pc = "counted"
    /\ home.topImages.st = "read"
    /\ home.bottomImages.st = "read"
    /\ home' = [home EXCEPT !.pc = "done",
                            !.bottomImages.rows = reverse(home.bottomImages.rows)]
    /\ UNCHANGED nhome
    /\ HomeUnchanged

\* home.tsx lines 109 and 153: the rank shown for the entry at index of the
\* top list and of the bottom list
TopLabel(index) == index + 1
BottomLabel(total, index) == total - index

-----------------------------------------------------------------------------
(* SpecFrame: a table of three rows; comparison requests, and votes         *)
(* submitted one after the other from a form of the page a comparison       *)
(* request returned.                                                        *)

FrameIds == {1, 2, 3}

SubmitShown ==
    \E choice \in {"A", "B"} :
        /\ nreq < MaxVotes
        /\ \A p \in Slots : pc[p] \in {"idle", "done"}
        /\ lpc = "done"
        /\ lresult = "Pair"
        /\ Submit(NextSlot, FormWinner(imageA.id, imageB.id, choice),
                  FormLoser(imageA.id, imageB.id, choice), "ip1", "s1")

NextFrame ==
    \/ StartLoad
    \/ DrawOffsets
    \/ RedrawOffset
    \/ LookupA
    \/ LookupB
    \/ LoaderReturn
    \/ SubmitShown
    \/ CheckLimits
    \/ FindWinner
    \/ FindLoser
    \/ CommitVote
    \/ FailVote

InitFrame ==
    /\ elo \in [FrameIds -> InitElos]
    /\ nextId = Cardinality(FrameIds) + 1
    /\ InitRest

SpecFrame == InitFrame /\ [][NextFrame]_vars

-----------------------------------------------------------------------------
(* SpecAsset: asset requests, for every file system of Disks.               *)

MaxAssets == 2       \* asset requests in a behaviour of SpecAsset

Asset == \E filename \in Filenames : nassets < MaxAssets /\ AssetLoader(filename)

NextAsset == Asset

InitAsset ==
    /\ elo = [i \in ItemIds |-> DefaultElo]
    /\ nextId = Cardinality(ItemIds) + 1
    /\ InitRequests
    /\ fs \in Disks

SpecAsset == InitAsset /\ [][NextAsset]_vars

-----------------------------------------------------------------------------
(* SpecBoard: leaderboard requests, and votes submitted one after the other *)
(* on a table of three rows.                                                *)

MaxHome == 2         \* leaderboard requests in a behaviour of SpecBoard

SubmitBoard ==
    \E w \in FrameIds, l \in FrameIds :
        /\ w # l
        /\ nreq < MaxVotes
        /\ \A p \in Slots : pc[p] \in {"idle", "done"}
        /\ Submit(NextSlot, IdText(w), IdText(l), "ip1", "s1")

StartHome == nhome < MaxHome /\ HomeCount

NextBoard ==
    \/ StartHome
    \/ HomeTop
    \/ HomeBottom
    \/ HomeReturn
    \/ SubmitBoard
    \/ CheckLimits
    \/ FindWinner
    \/ FindLoser
    \/ CommitVote
    \/ FailVote

SpecBoard == InitFrame /\ [][NextBoard]_vars

-----------------------------------------------------------------------------
(* Properties of the table, under Spec *)

\* the request of slot p has just left the handler
Finishes(p) == pc[p] # "done" /\ pc'[p] = "done"

\* the table after both rows of p's vote are written
BothWritten(p) ==
    [i \in DOMAIN elo |->
        IF i = IntOf(winnerId(p)) THEN newWinnerElo(winner[p].elo, loser[p].elo)
        ELSE IF i = IntOf(loserId(p)) THEN newLoserElo(winner[p].elo, loser[p].elo)
        ELSE elo[i]]

\* p holds two rows and is about to write
Writing(p) == pc[p] = "admitted" /\ BothRead(p) /\ ~Missing(p)

\* C1: every rating in the table is >= 0 in every reachable state.
C1_RatingNonNegative == \A i \in DOMAIN elo : elo[i] >= 0

\* a vote whose loser would have gone below 0 has been written, as 0
C1_Witness ==
    \E p \in Slots :
        /\ pc[p] = "done"
        /\ result[p] = "Success"
        /\ loser[p].elo - K * expectedLoser(winner[p].elo, loser[p].elo) < 0
        /\ elo[IntOf(loserId(p))] = 0

\* C2: every step leaves the table as it was or writes both rows of one vote;
\* no step, a failing transaction included, writes one row of a vote alone.
C2_AtomicWrite ==
    [][elo' = elo \/ \E p \in Slots : Writing(p) /\ elo' = BothWritten(p)]_vars

\* one vote was written and the transaction of another failed
C2_Witness ==
    \E p \in Slots, q \in Slots :
        /\ pc[p] = "done" /\ result[p] = "Success"
        /\ pc[q] = "done" /\ logged[q] = "TransactionError"
        /\ elo[IntOf(winnerId(p))] = newWinnerElo(winner[p].elo, loser[p].elo)
        /\ elo[IntOf(loserId(p))] = newLoserElo(winner[p].elo, loser[p].elo)

\* C6: a vote that commits writes the ratings computed from the rows it read,
\* whatever the table holds by then (no version check: the last writer wins).
C6_LastWriterWins ==
    [][\A p \in Slots :
          (Finishes(p) /\ result'[p] = "Success") =>
             /\ elo'[IntOf(winnerId(p))] = newWinnerElo(winner[p].elo, loser[p].elo)
             /\ elo'[IntOf(loserId(p))] = newLoserElo(winner[p].elo, loser[p].elo)]_vars

\* the table after vote (w, l) is applied to table e
Applied(e, w, l) ==
    [i \in DOMAIN e |->
        IF i = w THEN newWinnerElo(e[w], e[l])
        ELSE IF i = l THEN newLoserElo(e[w], e[l])
        ELSE e[i]]

\* Two votes on the same two items both read the ratings before either wrote,
\* both committed, and the table is the result of neither serial order: each
\* item carries what one of the two votes computed from the ratings it read.
C6_Witness ==
    \E p \in Slots, q \in Slots :
        /\ p # q
        /\ pc[p] = "done" /\ result[p] = "Success"
        /\ pc[q] = "done" /\ result[q] = "Success"
        /\ {IntOf(winnerId(p)), IntOf(loserId(p))} = {IntOf(winnerId(q)), IntOf(loserId(q))}
        /\ LET wp == IntOf(winnerId(p))
               lp == IntOf(loserId(p))
               wq == IntOf(winnerId(q))
               lq == IntOf(loserId(q))
               before == [i \in DOMAIN elo |-> IF i = wp THEN winner[p].elo
                                                          ELSE loser[p].elo]
           IN  /\ before[wq] = winner[q].elo
               /\ before[lq] = loser[q].elo
               /\ elo = Applied(before, wq, lq)
               /\ \A i \in DOMAIN elo :
                     /\ elo[i] # Applied(Applied(before, wp, lp), wq, lq)[i]
                     /\ elo[i] # Applied(Applied(before, wq, lq), wp, lp)[i]

\* the form values that are no well-formed pair of item ids
Malformed(r) ==
    \/ ~IsInteger(Number(r.rawWinner))
    \/ ~IsInteger(Number(r.rawLoser))
    \/ Number(r.rawWinner) = Number(r.rawLoser)

\* C7: a submission with equal ids or with an id that is no integer is refused
\* as invalid at once: it is never found waiting for the limiter or the table.
C7_MalformedRejected ==
    \A p \in Slots :
        (pc[p] # "idle" /\ Malformed(req[p])) =>
            (pc[p] = "done" /\ result[p] = "InvalidImageIds")

\* C8: a vote that found one of its items missing ends with the not-found
\* error, and the table is as it was.
C8_NotFoundReported ==
    [][\A p \in Slots :
          (Finishes(p) /\ pc[p] = "admitted" /\ BothRead(p) /\ Missing(p)) =>
             (result'[p] = "ImagesNotFound" /\ elo' = elo)]_vars

\* C10: when the transaction of a vote fails the table is as it was and the
\* handler throws; a request that is done takes no further step (no retry):
\* its slot only changes when a new request is submitted.
C10_FailureReported ==
    [][\A p \in Slots :
          /\ (Finishes(p) /\ Writing(p) /\ elo' # BothWritten(p)) =>
                (elo' = elo /\ result'[p] = "FailedToUpdate")
          /\ (Finishes(p) /\ Writing(p) /\ logged'[p] # "none") =>
                (elo' = elo /\ result'[p] = "FailedToUpdate")
          /\ (pc[p] = "done" /\ nreq' = nreq) =>
                (pc'[p] = "done" /\ result'[p] = result[p] /\ logged'[p] = logged[p])]_vars

\* a transaction failed, its handler threw, and both rows are as the vote read them
C10_Witness ==
    \E p \in Slots :
        /\ pc[p] = "done"
        /\ logged[p] = "TransactionError"
        /\ result[p] = "FailedToUpdate"
        /\ elo[IntOf(winnerId(p))] = winner[p].elo
        /\ elo[IntOf(loserId(p))] = loser[p].elo
        /\ newWinnerElo(winner[p].elo, loser[p].elo) # winner[p].elo

\* the request of slot p gets the answer of its second findUnique query
SecondRead(p) ==
    /\ pc[p] = "admitted"
    /\ \/ winner[p].st = "row" /\ loser[p].st = "pending" /\ loser'[p].st = "row"
       \/ loser[p].st = "row" /\ winner[p].st = "pending" /\ winner'[p].st = "row"

\* C24: the two ratings a vote computes from are those of one committed state
\* of the table: when the second of its two reads is answered, the rating the
\* first read returned is still the rating of that item in the table, no other
\* vote having been written between the two reads.
C24_SingleSnapshot ==
    [][\A p \in Slots :
          SecondRead(p) =>
             /\ winner'[p].elo = elo[IntOf(winnerId(p))]
             /\ loser'[p].elo = elo[IntOf(loserId(p))]]_vars

\* C26: a vote never lowers the rating of the winner nor raises that of the
\* loser, and changes neither by more than K = 32 points: the ratings a vote
\* writes, against the ratings it read.  The expected score of the winner lies
\* between 0 and 1, and the loser loses what the winner gains unless its
\* rating is held at 0.
C26_BoundedChange ==
    [][\A p \in Slots :
          (Finishes(p) /\ result'[p] = "Success") =>
             LET gain == elo'[IntOf(winnerId(p))] - winner[p].elo
                 loss == loser[p].elo - elo'[IntOf(loserId(p))]
                 e == expectedWinner(winner[p].elo, loser[p].elo)
             IN  /\ 0 <= gain /\ gain <= 32 * PerPoint
                 /\ 0 <= loss /\ loss <= 32 * PerPoint
                 /\ 0 <= e /\ e <= 1000
                 /\ gain = K * (1000 - e)
                 /\ loss = gain \/ (elo'[IntOf(loserId(p))] = 0 /\ loss < gain)]_vars

\* the item at 10 won over the item at 1200 and gained nearly all of K, which
\* the other lost
C26_Witness ==
    \E p \in Slots :
        /\ pc[p] = "done" /\ result[p] = "Success"
        /\ winner[p].elo = LowElo
        /\ loser[p].elo = DefaultElo
        /\ elo[IntOf(winnerId(p))] > LowElo + 31 * PerPoint
        /\ elo[IntOf(winnerId(p))] <= LowElo + 32 * PerPoint
        /\ elo[IntOf(loserId(p))] < DefaultElo - 31 * PerPoint

\* C11: every failure kind reaches the boundary with its own status class: a
\* limiter rejection as 429, invalid input and a missing item as a 4xx status,
\* and a 5xx status only for a failure of the store.
C11_StatusClasses ==
    \A p \in Slots :
        pc[p] = "done" =>
            /\ result[p] \in {"RateLimitIP429", "RateLimitSession429"} =>
                  status(result[p]) = 429
            /\ result[p] = "InvalidImageIds" => status(result[p]) \in 400..499
            /\ logged[p] = "ImagesNotFound" => status(result[p]) \in 400..499
            /\ status(result[p]) \in 500..599 => logged[p] = "TransactionError"

-----------------------------------------------------------------------------
(* Properties of the frame, under SpecFrame *)

\* the comparison request takes a step
LoaderSteps ==
    <<lpc, totalImages, random, randomOffset1, randomOffset2, imageA, imageB,
      lresult, nloads>>' #
    <<lpc, totalImages, random, randomOffset1, randomOffset2, imageA, imageB,
      lresult, nloads>>

\* C25: a vote that is written changes the rating of its winner and of its
\* loser and nothing else in the table: the other rows keep their ratings and
\* no row is added or removed; a step of a comparison request leaves the table
\* and both rate-limit maps as they are.
C25_FrameEffect ==
    [][/\ \A p \in Slots :
             (Finishes(p) /\ result'[p] = "Success") =>
                /\ DOMAIN elo' = DOMAIN elo
                /\ \A i \in DOMAIN elo :
                      i \notin {IntOf(winnerId(p)), IntOf(loserId(p))} => elo'[i] = elo[i]
       /\ LoaderSteps =>
             /\ elo' = elo
             /\ rateLimitMap' = rateLimitMap
             /\ sessionRateLimitMap' = sessionRateLimitMap]_vars

\* the vote of a page has been written: its two rows have new ratings, the
\* third row has the low rating it started with while the other two started
\* at the default, and a comparison request has ended since
C25_Witness ==
    \E p \in Slots, i \in DOMAIN elo :
        /\ pc[p] = "done" /\ result[p] = "Success"
        /\ DOMAIN elo = FrameIds
        /\ i \notin {IntOf(winnerId(p)), IntOf(loserId(p))}
        /\ elo[i] = LowElo
        /\ winner[p].elo = DefaultElo /\ loser[p].elo = DefaultElo
        /\ elo[IntOf(winnerId(p))] # DefaultElo
        /\ elo[IntOf(loserId(p))] # DefaultElo
        /\ nloads = 2 /\ lpc = "done"
        /\ rateLimitMap # << >>

-----------------------------------------------------------------------------
(* Properties of the asset loader, under SpecAsset *)

\* the path lies inside the allowed directory
Inside(p) == Len(p) > Len(Root) /\ SubSeq(p, 1, Len(Root)) = Root

\* C27: the asset loader returns the bytes of a file only when the file's
\* resolved real path lies inside /Volumes/T7/optimized; a request whose
\* resolved path lies outside it is answered 403 or 404 and no file is read.
C27_OnlyInside ==
    asset.status # 0 =>
        /\ asset.status = 200 => Inside(asset.body)
        /\ (/\ asset.filename # << >>
            /\ ~Inside(realpathSync(fs, join(Root, asset.filename)))) =>
                /\ asset.status \in {403, 404}
                /\ asset.body = << >>

-----------------------------------------------------------------------------
(* Properties of the leaderboard loader, under SpecBoard *)

\* the ratings of all rows, highest first: the entry at index r is of rank r
Descending(table) == reverse(Ascending(table, DOMAIN table))

\* C28: the top list is the (up to 50) highest ratings, highest first; when
\* the loader returns and the count and the bottom query as read are those of
\* the table as it is, the entry at index i of the returned bottomImages is
\* the row of rank totalImages - i, the rank shown for it, so the lowest
\* rating is first.
C28_BottomRanks ==
    [][/\ (home.topImages.st = "pending" /\ home'.topImages.st = "read") =>
             home'.topImages.rows =
                 SubSeq(Descending(elo), 1,
                        IF Cardinality(DOMAIN elo) < take
                        THEN Cardinality(DOMAIN elo) ELSE take)
       /\ (/\ home.pc = "counted" /\ home'.pc = "done"
           /\ home.totalImages = Cardinality(DOMAIN elo)
           /\ home.bottomImages.rows = findMany(elo, "asc", take)) =>
             \A index \in 0..(Len(home'.bottomImages.rows) - 1) :
                 home'.bottomImages.rows[index + 1] =
                     Descending(elo)[BottomLabel(home'.totalImages, index)]]_vars

-----------------------------------------------------------------------------
(* Properties of the Elo update, under SpecElo *)

\* the slot of the request submitted last, and of the one before it
LastSlot == ((nreq + 1) % Cardinality(Slots)) + 1
PreviousSlot == (nreq % Cardinality(Slots)) + 1

\* the vote of slot p has been written
Written(p) == pc[p] = "done" /\ result[p] = "Success"

\* C15: a vote between two items of the same rating r moves the winner to
\* r + K/2 = r + 16 and the loser to max(0, r - 16); from 1200 and 1200 the
\* table ends at 1216 and 1184.
C15_EqualRatings ==
    [][\A p \in Slots :
          (Finishes(p) /\ result'[p] = "Success" /\ winner[p].elo = loser[p].elo) =>
             LET r == winner[p].elo
                 half == (K * PerPoint) \div 2
             IN  /\ elo'[IntOf(winnerId(p))] = r + half
                 /\ elo'[IntOf(loserId(p))] = (IF r - half >= 0 THEN r - half ELSE 0)
                 /\ r = 1200 * PerPoint =>
                       /\ elo'[IntOf(winnerId(p))] = 1216 * PerPoint
                       /\ elo'[IntOf(loserId(p))] = 1184 * PerPoint]_vars

\* a vote between two items at 1200 has been written: 1216 and 1184
C15_Witness ==
    \E p \in Slots :
        /\ Written(p)
        /\ winner[p].elo = 1200 * PerPoint
        /\ loser[p].elo = 1200 * PerPoint
        /\ elo[IntOf(winnerId(p))] = 1216 * PerPoint
        /\ elo[IntOf(loserId(p))] = 1184 * PerPoint

\* the two changes of rating a written vote made: what it wrote less what it read
Delta(p) ==
    <<newWinnerElo(winner[p].elo, loser[p].elo) - winner[p].elo,
      newLoserElo(winner[p].elo, loser[p].elo) - loser[p].elo>>

\* two votes with the same winner and the same loser were written one after
\* the other
TwiceWritten ==
    /\ nreq >= 2
    /\ Written(PreviousSlot)
    /\ Written(LastSlot)
    /\ req[PreviousSlot].rawWinner = req[LastSlot].rawWinner
    /\ req[PreviousSlot].rawLoser = req[LastSlot].rawLoser

\* C16: votes are not deduplicated.  Of two identical votes written one after
\* the other, the second read the ratings the first wrote, each changed the
\* table, and the changes of the second differ from those of the first.
C16_NoDedup ==
    TwiceWritten =>
        LET first == PreviousSlot
            second == LastSlot
        IN  /\ winner[second].elo = newWinnerElo(winner[first].elo, loser[first].elo)
            /\ loser[second].elo = newLoserElo(winner[first].elo, loser[first].elo)
            /\ elo[IntOf(winnerId(second))]
                  = newWinnerElo(winner[second].elo, loser[second].elo)
            /\ elo[IntOf(loserId(second))]
                  = newLoserElo(winner[second].elo, loser[second].elo)
            /\ Delta(first) # <<0, 0>>
            /\ Delta(second) # <<0, 0>>
            /\ Delta(second) # Delta(first)

\* 1200 and 1200: the first vote moved the ratings by 16, the second by less
C16_Witness ==
    /\ TwiceWritten
    /\ winner[PreviousSlot].elo = 1200 * PerPoint
    /\ loser[PreviousSlot].elo = 1200 * PerPoint
    /\ Delta(PreviousSlot) = <<16 * PerPoint, 0 - 16 * PerPoint>>
    /\ Delta(LastSlot)[1] < 16 * PerPoint
    /\ Delta(LastSlot)[1] > 0

\* the table after the vote of one form of a page showing idA and idB
Outcome(table, idA, idB, choice) ==
    Applied(table, IntOf(Number(FormWinner(idA, idB, choice))),
                   IntOf(Number(FormLoser(idA, idB, choice))))

RECURSIVE Total(_)
\* the sum of the ratings of a table
Total(table) ==
    IF DOMAIN table = {} THEN 0
    ELSE LET i == CHOOSE k \in DOMAIN table : TRUE
         IN  table[i] + Total([k \in DOMAIN table \ {i} |-> table[k]])

\* the loser's new rating of the vote of slot p is not held at 0
Unclamped(p) == loser[p].elo + K * (0 - expectedLoser(winner[p].elo, loser[p].elo)) >= 0

\* C18: a vote whose new ratings are not clamped at 0 gives the winner what it
\* takes from the loser: the sum of the two ratings, and so the total of the
\* table, is the same after the vote as before, vote after vote.
C18_Conservation ==
    [][\A p \in Slots :
          (Finishes(p) /\ result'[p] = "Success" /\ Unclamped(p)) =>
             /\ elo'[IntOf(winnerId(p))] + elo'[IntOf(loserId(p))]
                   = winner[p].elo + loser[p].elo
             /\ elo'[IntOf(winnerId(p))] - winner[p].elo
                   = loser[p].elo - elo'[IntOf(loserId(p))]
             /\ Total(elo') = Total(elo)]_vars

\* two votes were written, neither clamped, from ratings 1216 and 1200: the
\* table has changed twice and its total is still 2416
C18_Witness ==
    /\ nreq >= 2
    /\ Written(PreviousSlot) /\ Written(LastSlot)
    /\ Unclamped(PreviousSlot) /\ Unclamped(LastSlot)
    /\ {winner[PreviousSlot].elo, loser[PreviousSlot].elo}
          = {1216 * PerPoint, 1200 * PerPoint}
    /\ Delta(PreviousSlot)[1] # 16 * PerPoint
    /\ Delta(LastSlot)[1] # 0
    /\ Total(elo) = 2416 * PerPoint

-----------------------------------------------------------------------------
(* Properties of the cleanup, under SpecGC *)

\* C19: buckets do not accumulate.  With requests arriving, the cleanup
\* running again and again and time passing, the IP bucket and the session
\* bucket of a client that sends no further requests are, whenever they are
\* there, removed from their maps later on.
C19_BucketsRemoved ==
    /\ (Silent[1] \in DOMAIN rateLimitMap) ~> (Silent[1] \notin DOMAIN rateLimitMap)
    /\ (Silent[2] \in DOMAIN sessionRateLimitMap)
          ~> (Silent[2] \notin DOMAIN sessionRateLimitMap)

\* the silent client was admitted after the clock had advanced, a cleanup then
\* found its buckets due with that timestamp still in the window and kept
\* them, and they are gone now
C19_Witness ==
    /\ Len(admittedIP[Silent[1]]) > 0
    /\ admittedIP[Silent[1]][Len(admittedIP[Silent[1]])] > cleanupInterval
    /\ Silent[1] \notin DOMAIN rateLimitMap
    /\ Silent[2] \notin DOMAIN sessionRateLimitMap
    /\ Voting[1] \in DOMAIN rateLimitMap

-----------------------------------------------------------------------------
(* Properties of the comparison request, under SpecSample *)

C14_SamplingTerminates == (lpc = "drawn") ~> (lpc = "done")

-----------------------------------------------------------------------------
(* Properties of the rate limiter, under SpecRL and SpecSame *)

\* the timestamps of a sequence that lie in the 60 s window ending at now
InWindow(stamps, now) == SelectSeq(stamps, LAMBDA t : now - t < 60000)

\* the timestamps a map holds for a key, none when it has no bucket for it
Stamps(map, key) == IF key \in DOMAIN map THEN map[key].requests ELSE <<>>

\* the request of slot p is passing lines 116-169
Limiting(p) == pc[p] = "validated" /\ pc'[p] # "validated"

Rejections == {"RateLimitIP429", "RateLimitSession429"}

\* C3: a request that arrives when its IP has 30, or its session 20, admitted
\* requests in the last 60 s is rejected with status 429; a request that
\* arrives when every admitted request of its IP and of its session is 60 s
\* old or older is admitted.
C3_WindowLimit ==
    [][\A p \in Slots :
          Limiting(p) =>
             LET nIP == Len(InWindow(admittedIP[req[p].ip], clock))
                 nSession == Len(InWindow(admittedSession[req'[p].sessionId], clock))
             IN  /\ (nIP >= 30 \/ nSession >= 20) =>
                       (pc'[p] = "done" /\ result'[p] \in Rejections)
                 /\ (nIP = 0 /\ nSession = 0) => pc'[p] = "admitted"]_vars

\* the last element of a sequence that is not empty
Last(seq) == seq[Len(seq)]

\* the request of slot p takes a step after its admission: a read or its end
AfterAdmission(p) ==
    /\ pc[p] = "admitted"
    /\ winner'[p] # winner[p] \/ loser'[p] # loser[p] \/ Finishes(p)

\* C21: the limiter is charged before the store is touched.  A request that is
\* admitted has, at that step, its timestamp at the end of its IP bucket and of
\* its session bucket, and has read no row yet; nothing it does afterwards,
\* failing included, changes a bucket; and when it ends, whatever its result,
\* its buckets count in the window exactly the requests that were admitted.
C21_ChargedBeforeReads ==
    [][\A p \in Slots :
          /\ (Limiting(p) /\ pc'[p] = "admitted") =>
                /\ Stamps(rateLimitMap', req[p].ip) # <<>>
                /\ Last(Stamps(rateLimitMap', req[p].ip)) = clock
                /\ Stamps(sessionRateLimitMap', req'[p].sessionId) # <<>>
                /\ Last(Stamps(sessionRateLimitMap', req'[p].sessionId)) = clock
                /\ winner'[p].st = "pending" /\ loser'[p].st = "pending"
          /\ AfterAdmission(p) =>
                /\ rateLimitMap' = rateLimitMap
                /\ sessionRateLimitMap' = sessionRateLimitMap
          /\ (Finishes(p) /\ pc[p] = "admitted") =>
                /\ Len(InWindow(Stamps(rateLimitMap', req[p].ip), clock'))
                      = Len(InWindow(admittedIP'[req[p].ip], clock'))
                /\ Len(InWindow(Stamps(sessionRateLimitMap', req[p].sessionId), clock'))
                      = Len(InWindow(admittedSession'[req[p].sessionId], clock'))]_vars

\* two votes were admitted and none was applied: one found no such item, the
\* transaction of the other failed, and the IP bucket counts both
C21_Witness ==
    \E p \in Slots, q \in Slots :
        /\ pc[p] = "done" /\ logged[p] = "ImagesNotFound"
        /\ pc[q] = "done" /\ logged[q] = "TransactionError"
        /\ Len(Stamps(rateLimitMap, "ip1")) = 2
        /\ Len(admittedIP["ip1"]) = 2
        /\ \A i \in DOMAIN elo : elo[i] \in InitElos

\* C22: the cleanup is transparent to admission.  Whatever cleanups ran
\* before a request or just before its check, the request is admitted exactly
\* when its IP has fewer than 30, and its session fewer than 20, admitted
\* requests in the window of 60 s ending at the clock the request read: the
\* decision a limiter that never cleans up would take.
C22_CleanupTransparent ==
    [][\A p \in Slots :
          Limiting(p) =>
             (pc'[p] = "admitted" <=>
                 /\ Len(InWindow(admittedIP[req[p].ip], clock)) < 30
                 /\ Len(InWindow(admittedSession[req'[p].sessionId], clock)) < 20)]_vars

\* timestamps in non-decreasing order
NonDecreasing(seq) == \A i \in 1..Len(seq), j \in 1..Len(seq) : i <= j => seq[i] <= seq[j]

\* C23: at every step every IP bucket is left with at most 30 timestamps and
\* every session bucket with at most 20, in non-decreasing order, and a bucket
\* grows by no more than the number of requests admitted for its key in that
\* step: a rejection and a cleanup lengthen no bucket.
C23_BucketsBounded ==
    [][/\ \A ip \in DOMAIN rateLimitMap' :
             /\ Len(rateLimitMap'[ip].requests) <= 30
             /\ NonDecreasing(rateLimitMap'[ip].requests)
             /\ Len(rateLimitMap'[ip].requests) - Len(Stamps(rateLimitMap, ip))
                   <= Len(admittedIP'[ip]) - Len(admittedIP[ip])
       /\ \A sid \in DOMAIN sessionRateLimitMap' :
             /\ Len(sessionRateLimitMap'[sid].requests) <= 20
             /\ NonDecreasing(sessionRateLimitMap'[sid].requests)
             /\ Len(sessionRateLimitMap'[sid].requests)
                   - Len(Stamps(sessionRateLimitMap, sid))
                   <= Len(admittedSession'[sid]) - Len(admittedSession[sid])]_vars

\* an IP bucket holds 30 timestamps taken at two different instants, and a
\* request of that IP has been refused
C23_Witness ==
    \E p \in Slots :
        /\ pc[p] = "done"
        /\ result[p] = "RateLimitIP429"
        /\ Len(Stamps(rateLimitMap, req[p].ip)) = 30
        /\ rateLimitMap[req[p].ip].requests[1] < rateLimitMap[req[p].ip].requests[30]

\* the number of timestamps of a history in the interval (t - 60 s, t]
CountIn(stamps, t) == Len(SelectSeq(stamps, LAMBDA u : t - 60000 < u /\ u <= t))

\* C20: over the whole history of admissions, for every IP and every session
\* and every instant t, at most 30 requests of the IP, and at most 20 of the
\* session, were admitted in (t - 60 s, t].  The count only rises at the
\* instant of an admission, so the instants to look at are those.
C20_SlidingWindow ==
    /\ \A ip \in ClientIPs :
          \A k \in 1..Len(admittedIP[ip]) :
              CountIn(admittedIP[ip], admittedIP[ip][k]) <= 30
    /\ \A sid \in AllSessions :
          \A k \in 1..Len(admittedSession[sid]) :
              CountIn(admittedSession[sid], admittedSession[sid][k]) <= 20

\* C4: a request is admitted exactly when the IP bucket the limiter finds holds
\* fewer than 30 timestamps of the window and the session bucket fewer than 20;
\* a rejected request is answered by the IP limiter when the IP bucket is at
\* its limit, and by the session limiter otherwise.  The buckets the limiter
\* found are read off the maps it leaves: a rejection leaves them as found, an
\* admission adds one timestamp to each.
C4_DualKeying ==
    [][\A p \in Slots :
          Limiting(p) =>
             LET admitted == pc'[p] = "admitted"
                 own == IF admitted THEN 1 ELSE 0
                 cIP == Len(InWindow(Stamps(rateLimitMap', req[p].ip), clock)) - own
                 cSession ==
                     Len(InWindow(Stamps(sessionRateLimitMap', req'[p].sessionId), clock))
                        - own
             IN  /\ admitted <=> (cIP < 30 /\ cSession < 20)
                 /\ ~admitted =>
                       result'[p] = IF cIP >= 30 THEN "RateLimitIP429"
                                                 ELSE "RateLimitSession429"]_vars

\* a request was refused by the IP limiter while its session was at its limit too
C4_Witness ==
    \E p \in Slots :
        /\ pc[p] = "done"
        /\ result[p] = "RateLimitIP429"
        /\ Len(InWindow(Stamps(sessionRateLimitMap, req[p].sessionId), clock)) >= 20
        /\ Len(InWindow(Stamps(rateLimitMap, req[p].ip), clock)) >= 30

IsSuffix(s, t) ==
    /\ Len(s) <= Len(t)
    /\ s = SubSeq(t, Len(t) - Len(s) + 1, Len(t))

\* the request of slot p is refused by validation or by a limiter
Refused(p) ==
    /\ Finishes(p)
    /\ result'[p] \in Rejections \cup {"InvalidImageIds"}

\* C9 as stated: a request refused by validation or by a limiter leaves the
\* table and both rate-limit maps as they were.
C9_RejectedChangesNothing ==
    [][\A p \in Slots :
          Refused(p) =>
             /\ elo' = elo
             /\ winner'[p].st = "pending" /\ loser'[p].st = "pending"
             /\ rateLimitMap' = rateLimitMap
             /\ sessionRateLimitMap' = sessionRateLimitMap]_vars

\* C9, amended: a request refused by validation or by a limiter reads and
\* writes no row and adds no timestamp to any bucket: every bucket of either
\* map holds afterwards what it held before, less what a cleanup dropped from
\* its front, and a bucket that was not there before is empty.
C9_RejectedAddsNoTimestamp ==
    [][\A p \in Slots :
          Refused(p) =>
             /\ elo' = elo
             /\ winner'[p].st = "pending" /\ loser'[p].st = "pending"
             /\ \A ip \in DOMAIN rateLimitMap' :
                   IsSuffix(rateLimitMap'[ip].requests, Stamps(rateLimitMap, ip))
             /\ \A sid \in DOMAIN sessionRateLimitMap' :
                   IsSuffix(sessionRateLimitMap'[sid].requests,
                            Stamps(sessionRateLimitMap, sid))]_vars

\* the session limiter refused a request of an IP seen for the first time: the
\* IP has a bucket now, and the bucket is empty
C9_Witness ==
    \E p \in Slots :
        /\ pc[p] = "done"
        /\ result[p] = "RateLimitSession429"
        /\ req[p].ip \in DOMAIN rateLimitMap
        /\ rateLimitMap[req[p].ip].requests = <<>>
        /\ admittedIP[req[p].ip] = <<>>

====
